---- MODULE Spec2Model ----
(***************************************************************************)
(* Model of the hero banner of src/components/Hero.tsx: the device-class   *)
(* detection, the readiness effect that races the media events against a   *)
(* 1500 ms timer, and the rendering of the poster and video layers.        *)
(*                                                                         *)
(* One action is one browser task: the mount commit, a React re-render     *)
(* caused by a setIsMobile, the delivery of one media event, the expiry of *)
(* the timer, a resize notification, the unmount, a scroll notification, a *)
(* display refresh.                                                        *)
(*                                                                         *)
(* Spec is the hero with its media and resize events; ScrollSpec is the    *)
(* hero with its scroll notifications and display refreshes; PageSpec      *)
(* interleaves the two; CallbackSpec adds a hosting page that supplies new *)
(* callbacks; LegacySpec is the hero variant of src/unnamed/part_002.      *)
(***************************************************************************)
EXTENDS Integers, FiniteSets, Sequences, TLC

(* ---- bounds of the model ---- *)
MaxSignals == 3
MaxResizes == 1
MaxTime == 1500
TickMs == 500
MaxScrolls == 2
MaxFrames == 2
MaxScrollTime == 16
ShortTickMs == 8
MaxCallbacks == 1
MaxLegacyTime == 2000
LegacyTickMs == 1000

(* ---- program constants ---- *)
Breakpoint == 768
MaxWaitMs == 1500
SlowRate == 85
NormalRate == 100
HaveCurrentData == 2
ThrottleDelay == 16
MinScrollDelta == 5
LegacyReadyEnough == 3
LegacyErrorDelayMs == 2000

Widths == {375, 767, 768, 1440}
ReadyStates == 0..4
Heights == {600, 800}
ScrollYs == {-10, 3, 6, 200, 1300}
InitScrollYs == {0, 400}
ScrollWidths == {375, 1440}
PageScrollYs == {3, 200}
OpacityInputs == {0, 1, 200, 300, 301, 400, 401, 1200, 1201}

VARIABLES
    phase,              \* "init" (constructed, effects not yet run), "mounted", "unmounted"
    innerWidth,         \* window.innerWidth
    uaMobile,           \* navigator.userAgent matches the small-touch pattern
    isMobile,           \* useState(false), Hero.tsx:13
    nextIsMobile,       \* value queued by setIsMobile, applied by the next render
    isVideoLoaded,      \* useState(false), Hero.tsx:12
    videoReady,         \* useState(false), Hero.tsx:14
    videoEl,            \* a <video> element has been created (events can reach it)
    readyState,         \* video.readyState of the current element
    videoErrored,       \* the current element has failed to load
    playbackRate,       \* video.playbackRate * 100
    timerPending,       \* maxWaitTimeout is scheduled and not cleared
    timerDeadline,      \* time at which maxWaitTimeout may run
    hasCalledCallback,  \* closure variable of the current effect run
    listeners,          \* listeners the effect has on the video element
    calls,              \* number of invocations of onVideoLoadedRef.current
    timersCreated,      \* number of setTimeout calls of the readiness effect
    loadCalls,          \* number of video.load() calls
    now,                \* clock in ms
    nSignals,           \* number of media events and timer expiries delivered
    nResizes,           \* number of resize notifications
    delivered,          \* kinds of signal delivered so far: "ready", "error", "timeout"
    first,              \* which branch notified first in this mount
    classChanged,       \* the device class changed since construction
    resizePending,      \* a resize event is queued behind an orientation change
    innerHeight,        \* window.innerHeight
    scrollY,            \* window.scrollY
    vh,                 \* window.innerHeight last written to --vh (0: never)
    vhListeners,        \* setViewportHeight listens to resize and orientationchange
    scrollListener,     \* handleScroll listens to scroll
    ticking,            \* closure variable of the scroll effect, Hero.tsx:157
    rafPending,         \* number of frame callbacks requested and not run or cancelled
    lastScrollY,        \* closure variable, Hero.tsx:159
    lastUpdateTime,     \* closure variable, Hero.tsx:161
    contentOpacity,     \* contentRef.current.style.opacity, a fraction num/den
    nScrolls,           \* number of scroll notifications
    nFrames,            \* number of display refreshes
    sinceFrame,         \* scroll notifications handled since the last refresh
    recomputes,         \* number of runs of updateParallax as a frame callback
    onVideoLoaded,      \* identity of the onVideoLoaded prop of the last render
    callbackRef,        \* onVideoLoadedRef.current, Hero.tsx:17
    lastInvoked,        \* identity of the callback invoked last (0: none)
    runCalls,           \* invocations of onReady by the current run of the effect
    readyRuns,          \* runs of handleVideoReady past its guard, current run
    hostIsVideoLoaded,  \* isVideoLoaded of the hosting page, part_000:24
    \* ---- the hero variant of src/unnamed/part_002 ----
    legacyPhase,        \* "init", "mounted", "unmounted"
    legacyReadyState,   \* video.readyState
    legacyIsVideoLoaded,\* useState(false), part_002:12
    legacyListeners,    \* listeners the video effect has on the element
    legacyCalls,        \* number of invocations of onVideoLoaded
    legacyTimerPending, \* the 2000 ms timer of handleVideoError is scheduled
    legacyTimerDeadline,\* time at which it may run
    legacyDelivered,    \* media events delivered so far
    legacyCallback,     \* identity of the onVideoLoaded prop of the last render
    legacyNow           \* clock in ms

scrollVars == <<scrollListener, ticking, rafPending, lastScrollY, lastUpdateTime,
                contentOpacity, sinceFrame, recomputes>>

scrollEnv == <<innerHeight, scrollY, nScrolls, nFrames>>

vars == <<phase, innerWidth, uaMobile, isMobile, nextIsMobile, isVideoLoaded,
          videoReady, videoEl, readyState, videoErrored, playbackRate,
          timerPending, timerDeadline, hasCalledCallback, listeners, calls,
          timersCreated, loadCalls, now, nSignals, nResizes, delivered, first,
          classChanged, resizePending, innerHeight, scrollY, vh, vhListeners,
          scrollListener, ticking, rafPending, lastScrollY, lastUpdateTime,
          contentOpacity, nScrolls, nFrames, sinceFrame, recomputes,
          onVideoLoaded, callbackRef, lastInvoked, runCalls, readyRuns,
          hostIsVideoLoaded,
          legacyPhase, legacyReadyState, legacyIsVideoLoaded, legacyListeners,
          legacyCalls, legacyTimerPending, legacyTimerDeadline, legacyDelivered,
          legacyCallback, legacyNow>>

legacyVars == <<legacyPhase, legacyReadyState, legacyIsVideoLoaded,
                legacyListeners, legacyCalls, legacyTimerPending,
                legacyTimerDeadline, legacyDelivered, legacyCallback, legacyNow>>

envVars == <<innerWidth, uaMobile, now, nResizes, classChanged>>

(* a variant that ignores the platform signature *)
checkMobile_WidthOnly(w, ua) == w < Breakpoint

(* ---- DeviceClassifier: checkMobile, Hero.tsx:26 ---- *)
checkMobile(w, ua) == (w < Breakpoint) \/ ua

(* ---- the state the readiness effect reads and writes, as a record ---- *)
Cur ==
    [isVideoLoaded |-> isVideoLoaded, videoReady |-> videoReady,
     playbackRate |-> playbackRate, timerPending |-> timerPending,
     timerDeadline |-> timerDeadline, hasCalledCallback |-> hasCalledCallback,
     listeners |-> listeners, calls |-> calls,
     timersCreated |-> timersCreated, loadCalls |-> loadCalls,
     callbackRef |-> callbackRef, lastInvoked |-> lastInvoked,
     runCalls |-> runCalls, readyRuns |-> readyRuns,
     hostIsVideoLoaded |-> hostIsVideoLoaded]

Apply(s) ==
    /\ isVideoLoaded' = s.isVideoLoaded
    /\ videoReady' = s.videoReady
    /\ playbackRate' = s.playbackRate
    /\ timerPending' = s.timerPending
    /\ timerDeadline' = s.timerDeadline
    /\ hasCalledCallback' = s.hasCalledCallback
    /\ listeners' = s.listeners
    /\ calls' = s.calls
    /\ timersCreated' = s.timersCreated
    /\ loadCalls' = s.loadCalls
    /\ callbackRef' = s.callbackRef
    /\ lastInvoked' = s.lastInvoked
    /\ runCalls' = s.runCalls
    /\ readyRuns' = s.readyRuns
    /\ hostIsVideoLoaded' = s.hostIsVideoLoaded

(* a variant that flips the flag *)
handleVideoLoaded_Toggle(s) == [s EXCEPT !.hostIsVideoLoaded = ~@]

(* handleVideoLoaded of the hosting page, part_000:31-33 *)
handleVideoLoaded(s) == [s EXCEPT !.hostIsVideoLoaded = TRUE]

(* onVideoLoadedRef.current(), Hero.tsx:59-61, 69-71, 78-80, 100-102 *)
notify(s) ==
    handleVideoLoaded([s EXCEPT !.calls = @ + 1, !.runCalls = @ + 1,
                                !.lastInvoked = s.callbackRef])

(* a variant that keeps the callback captured at mount *)
syncCallbackRef_Stale(s, cb) == s

(* onVideoLoadedRef.current = onVideoLoaded, Hero.tsx:19-21 *)
syncCallbackRef(s, cb) == [s EXCEPT !.callbackRef = cb]

(* a variant that expires without notifying *)
maxWaitTimeout_Silent(s) ==
    [s EXCEPT !.timerPending = FALSE, !.isVideoLoaded = TRUE]

(* callback of maxWaitTimeout, Hero.tsx:67-72 *)
maxWaitTimeout(s) ==
    notify([s EXCEPT !.timerPending = FALSE, !.isVideoLoaded = TRUE])

(* a variant that leaves the playback rate alone *)
handleVideoReady_NoRate(s, rs) ==
    IF s.hasCalledCallback THEN s
    ELSE notify([s EXCEPT !.hasCalledCallback = TRUE,
                          !.readyRuns = @ + 1,
                          !.timerPending = FALSE,
                          !.videoReady = TRUE,
                          !.isVideoLoaded = TRUE])

(* a variant that forgets clearTimeout(maxWaitTimeout) *)
handleVideoReady_KeepsTimer(s, rs) ==
    IF s.hasCalledCallback THEN s
    ELSE notify([s EXCEPT !.hasCalledCallback = TRUE,
                          !.readyRuns = @ + 1,
                          !.playbackRate = IF rs >= HaveCurrentData THEN SlowRate ELSE @,
                          !.videoReady = TRUE,
                          !.isVideoLoaded = TRUE])

(* a variant without the hasCalledCallback guard *)
handleVideoReady_NoGuard(s, rs) ==
    notify([s EXCEPT !.hasCalledCallback = TRUE,
                     !.readyRuns = @ + 1,
                     !.timerPending = FALSE,
                     !.playbackRate = IF rs >= HaveCurrentData THEN SlowRate ELSE @,
                     !.videoReady = TRUE,
                     !.isVideoLoaded = TRUE])

(* handleVideoReady, Hero.tsx:87-103; rs is video.readyState *)
handleVideoReady(s, rs) ==
    IF s.hasCalledCallback THEN s
    ELSE notify([s EXCEPT !.hasCalledCallback = TRUE,
                          !.readyRuns = @ + 1,
                          !.timerPending = FALSE,
                          !.playbackRate = IF rs >= HaveCurrentData THEN SlowRate ELSE @,
                          !.videoReady = TRUE,
                          !.isVideoLoaded = TRUE])

(* handleVideoError, Hero.tsx:105-110 *)
handleVideoError(s, rs) ==
    IF s.hasCalledCallback THEN s
    ELSE handleVideoReady([s EXCEPT !.timerPending = FALSE], rs)

(* onError prop of the <video>, Hero.tsx:385-389 *)
onErrorProp(s) == [s EXCEPT !.videoReady = FALSE]

(* a variant that never asks the element to load *)
forceVideoLoad_Never(s, rs) == s

(* forceVideoLoad, Hero.tsx:113-117 *)
forceVideoLoad(s, rs) ==
    IF rs = 0 THEN [s EXCEPT !.loadCalls = @ + 1] ELSE s

(* a variant that forgets the removeEventListener calls *)
readinessCleanup_KeepsListeners(s) ==
    [s EXCEPT !.timerPending = FALSE]

(* a variant that forgets clearTimeout(maxWaitTimeout) *)
readinessCleanup_KeepsTimer(s) ==
    [s EXCEPT !.listeners = {}]

(* cleanup returned by the readiness effect, Hero.tsx:133-141 *)
readinessCleanup(s) ==
    [s EXCEPT !.timerPending = FALSE, !.listeners = {}]

(* a variant whose timer is due at once *)
timerDue_Immediate(t) == t

(* setTimeout(..., 1500), Hero.tsx:67-72: the time at which the timer is due *)
timerDue(t) == t + MaxWaitMs

(* a variant that registers the listeners before looking at readyState *)
readinessEffect_AlwaysListens(s, mobile, hasVideo, rs, t) ==
    IF mobile
    THEN notify([s EXCEPT !.isVideoLoaded = TRUE, !.runCalls = 0, !.readyRuns = 0])
    ELSE LET s1 == [s EXCEPT !.runCalls = 0, !.readyRuns = 0,
                             !.timerPending = TRUE,
                             !.timerDeadline = timerDue(t),
                             !.timersCreated = @ + 1]
         IN IF ~hasVideo
            THEN notify([s1 EXCEPT !.timerPending = FALSE, !.isVideoLoaded = TRUE])
            ELSE LET s2 == forceVideoLoad([s1 EXCEPT !.hasCalledCallback = FALSE,
                                                     !.listeners = {"loadeddata", "canplay", "error"}], rs)
                 IN IF rs >= HaveCurrentData
                    THEN handleVideoReady(s2, rs)
                    ELSE s2

(* body of the readiness effect, Hero.tsx:55-132; mobile is the rendered
   isMobile, hasVideo is videoElementRef.current # null, rs its readyState,
   t the time of the call *)
readinessEffect(s, mobile, hasVideo, rs, t) ==
    IF mobile
    THEN notify([s EXCEPT !.isVideoLoaded = TRUE, !.runCalls = 0, !.readyRuns = 0])
    ELSE LET s1 == [s EXCEPT !.runCalls = 0, !.readyRuns = 0,
                             !.timerPending = TRUE,
                             !.timerDeadline = timerDue(t),
                             !.timersCreated = @ + 1]
         IN IF ~hasVideo
            THEN notify([s1 EXCEPT !.timerPending = FALSE, !.isVideoLoaded = TRUE])
            ELSE LET s2 == forceVideoLoad([s1 EXCEPT !.hasCalledCallback = FALSE], rs)
                 IN IF rs >= HaveCurrentData
                    THEN handleVideoReady(s2, rs)
                    ELSE [s2 EXCEPT !.listeners = {"loadeddata", "canplay", "error"}]

(* the run of the readiness effect left a cleanup to call: the mobile branch
   and the no-video branch return nothing, Hero.tsx:62, 81 *)
hasCleanup(mobile, hasVideo) == ~mobile /\ hasVideo

(* which branch of the effect notified synchronously, if any *)
syncWinner(mobile, hasVideo, rs) ==
    IF mobile THEN "mobile"
    ELSE IF ~hasVideo \/ rs >= HaveCurrentData THEN "sync" ELSE "none"

Won(kind, before, after) ==
    IF first = "none" /\ after.calls > before.calls THEN kind ELSE first


(* ---- arithmetic of the opacity: exact fractions num/den with den > 0 ---- *)
Frac(n, d) == [num |-> n, den |-> d]
One == Frac(1, 1)
Zero == Frac(0, 1)
RLe(a, b) == a.num * b.den <= b.num * a.den
REq(a, b) == a.num * b.den = b.num * a.den
RMin(a, b) == IF RLe(a, b) THEN a ELSE b
RSub(a, b) == Frac(a.num * b.den - b.num * a.den, a.den * b.den)
RDiv(a, b) ==
    IF b.num > 0 THEN Frac(a.num * b.den, a.den * b.num)
                 ELSE Frac(-(a.num * b.den), -(a.den * b.num))
Abs(x) == IF x < 0 THEN -x ELSE x

(* a variant that fades over a whole viewport height *)
fadeOpacity_FullHeight(y, h) ==
    RSub(One, RMin(One, RDiv(Frac(y, 1), Frac(h, 1))))

(* 1 - Math.min(1, scrollY / (windowHeight * 0.5)), Hero.tsx:181 *)
fadeOpacity(y, h) ==
    RSub(One, RMin(One, RDiv(Frac(y, 1), Frac(h, 2))))

(* the value updateParallax writes for scrollY = y, windowHeight = h,
   Hero.tsx:178-192; windowHeight * 1.5 is 3h/2 *)
targetOpacity(y, h) ==
    IF 2 * y <= 3 * h THEN fadeOpacity(y, h) ELSE Zero

(* ---- the state the scroll effect reads and writes, as a record ---- *)
SCur ==
    [scrollListener |-> scrollListener, ticking |-> ticking,
     rafPending |-> rafPending, lastScrollY |-> lastScrollY,
     lastUpdateTime |-> lastUpdateTime, contentOpacity |-> contentOpacity]

SApply(s) ==
    /\ scrollListener' = s.scrollListener
    /\ ticking' = s.ticking
    /\ rafPending' = s.rafPending
    /\ lastScrollY' = s.lastScrollY
    /\ lastUpdateTime' = s.lastUpdateTime
    /\ contentOpacity' = s.contentOpacity

(* a variant that forgets to record the offset it applied *)
updateParallax_KeepsOffset(s, y, h, t) ==
    IF t - s.lastUpdateTime < ThrottleDelay /\ Abs(y - s.lastScrollY) < MinScrollDelta
    THEN [s EXCEPT !.ticking = FALSE]
    ELSE [s EXCEPT !.lastUpdateTime = t,
                   !.contentOpacity = targetOpacity(y, h),
                   !.ticking = FALSE]

(* a variant whose skipped path leaves the flag set *)
updateParallax_StuckOnSkip(s, y, h, t) ==
    IF t - s.lastUpdateTime < ThrottleDelay /\ Abs(y - s.lastScrollY) < MinScrollDelta
    THEN s
    ELSE [s EXCEPT !.lastScrollY = y,
                   !.lastUpdateTime = t,
                   !.contentOpacity = targetOpacity(y, h),
                   !.ticking = FALSE]

(* a variant whose filter skips when either threshold is not reached *)
updateParallax_SkipOnEither(s, y, h, t) ==
    IF t - s.lastUpdateTime < ThrottleDelay \/ Abs(y - s.lastScrollY) < MinScrollDelta
    THEN [s EXCEPT !.ticking = FALSE]
    ELSE [s EXCEPT !.lastScrollY = y,
                   !.lastUpdateTime = t,
                   !.contentOpacity = targetOpacity(y, h),
                   !.ticking = FALSE]

(* updateParallax, Hero.tsx:163-195; y is window.scrollY, h is
   window.innerHeight, t is performance.now() *)
updateParallax(s, y, h, t) ==
    IF t - s.lastUpdateTime < ThrottleDelay /\ Abs(y - s.lastScrollY) < MinScrollDelta
    THEN [s EXCEPT !.ticking = FALSE]
    ELSE [s EXCEPT !.lastScrollY = y,
                   !.lastUpdateTime = t,
                   !.contentOpacity = targetOpacity(y, h),
                   !.ticking = FALSE]

(* a variant that requests a frame on every notification *)
handleScroll_NoGuard(s) ==
    [s EXCEPT !.rafPending = @ + 1, !.ticking = TRUE]

(* handleScroll, Hero.tsx:197-202 *)
handleScroll(s) ==
    IF ~s.ticking THEN [s EXCEPT !.rafPending = @ + 1, !.ticking = TRUE] ELSE s

(* a variant that forgets cancelAnimationFrame(rafId) *)
scrollCleanup_KeepsFrame(s) ==
    [s EXCEPT !.scrollListener = FALSE]

(* cleanup returned by the scroll effect, Hero.tsx:209-214 *)
scrollCleanup(s) ==
    [s EXCEPT !.scrollListener = FALSE,
              !.rafPending = IF @ > 0 THEN @ - 1 ELSE 0]

(* body of the scroll effect, Hero.tsx:144-208 *)
scrollEffect(s, mobile, y, h, t) ==
    IF mobile
    THEN [s EXCEPT !.contentOpacity = One]
    ELSE updateParallax([s EXCEPT !.ticking = FALSE,
                                  !.lastScrollY = 0,
                                  !.lastUpdateTime = 0,
                                  !.scrollListener = TRUE], y, h, t)

(* body and cleanup of the viewport-height effect, Hero.tsx:35-52 *)
viewportEffect(mobile, h) ==
    /\ vh' = IF mobile THEN h ELSE vh
    /\ vhListeners' = mobile

(* setViewportHeight as listener, Hero.tsx:39-46 *)
setViewportHeight(h) ==
    /\ vh' = IF vhListeners THEN h ELSE vh
    /\ UNCHANGED vhListeners

InitState(ws, ys, hs, rss) ==
    /\ phase = "init"
    /\ innerWidth \in ws
    /\ uaMobile \in BOOLEAN
    /\ isMobile = FALSE
    /\ nextIsMobile = FALSE
    /\ isVideoLoaded = FALSE
    /\ videoReady = FALSE
    /\ videoEl = FALSE
    /\ readyState \in rss
    /\ videoErrored = FALSE
    /\ playbackRate = NormalRate
    /\ timerPending = FALSE
    /\ timerDeadline = 0
    /\ hasCalledCallback = FALSE
    /\ listeners = {}
    /\ calls = 0
    /\ timersCreated = 0
    /\ loadCalls = 0
    /\ now = 0
    /\ nSignals = 0
    /\ nResizes = 0
    /\ delivered = {}
    /\ first = "none"
    /\ classChanged = FALSE
    /\ resizePending = FALSE
    /\ innerHeight \in hs
    /\ scrollY \in ys
    /\ vh = 0
    /\ vhListeners = FALSE
    /\ scrollListener = FALSE
    /\ ticking = FALSE
    /\ rafPending = 0
    /\ lastScrollY = 0
    /\ lastUpdateTime = 0
    /\ contentOpacity = One
    /\ nScrolls = 0
    /\ nFrames = 0
    /\ sinceFrame = 0
    /\ recomputes = 0
    /\ onVideoLoaded = 1
    /\ callbackRef = 1
    /\ lastInvoked = 0
    /\ runCalls = 0
    /\ readyRuns = 0
    /\ hostIsVideoLoaded = FALSE

(* the state of the part_002 variant after construction *)
LegacyInitState(rss) ==
    /\ legacyPhase = "init"
    /\ legacyReadyState \in rss
    /\ legacyIsVideoLoaded = FALSE
    /\ legacyListeners = {}
    /\ legacyCalls = 0
    /\ legacyTimerPending = FALSE
    /\ legacyTimerDeadline = 0
    /\ legacyDelivered = {}
    /\ legacyCallback = 1
    /\ legacyNow = 0

Init == InitState(Widths, {0}, {800}, ReadyStates) /\ LegacyInitState({0})

ScrollInit ==
    InitState(ScrollWidths, InitScrollYs, Heights, {0}) /\ LegacyInitState({0})

(* First commit: render with isMobile = false (the <video> is rendered),
   then the effects in source order: checkMobile (Hero.tsx:24-32) queues
   setIsMobile, the readiness effect (Hero.tsx:55-142) runs with the rendered
   isMobile = false. *)
Mount ==
    /\ phase = "init"
    /\ phase' = "mounted"
    /\ videoEl' = TRUE
    /\ nextIsMobile' = checkMobile(innerWidth, uaMobile)
    /\ LET s == readinessEffect(syncCallbackRef(Cur, onVideoLoaded),
                                isMobile, TRUE, readyState, now)
       IN /\ Apply(s)
          /\ first' = syncWinner(isMobile, TRUE, readyState)
    /\ viewportEffect(isMobile, innerHeight)
    /\ SApply(scrollEffect(SCur, isMobile, scrollY, innerHeight, now))
    /\ UNCHANGED <<isMobile, readyState, videoErrored, nSignals, delivered,
                   resizePending, sinceFrame, recomputes>>
    /\ UNCHANGED envVars
    /\ UNCHANGED scrollEnv
    /\ UNCHANGED onVideoLoaded
    /\ UNCHANGED legacyVars

(* Re-render after setIsMobile changed the state: the cleanup of the previous
   run of the readiness effect, then the effect again with the new isMobile
   (dependency [isMobile], Hero.tsx:142).  Rendering with isMobile = false
   creates a new <video> element. *)
Rerender ==
    /\ phase = "mounted"
    /\ nextIsMobile # isMobile
    /\ isMobile' = nextIsMobile
    /\ \E rs \in ReadyStates :
         LET newRs == IF nextIsMobile THEN readyState ELSE rs
             s0 == IF hasCleanup(isMobile, TRUE) THEN readinessCleanup(Cur) ELSE Cur
             s1 == IF nextIsMobile THEN s0 ELSE [s0 EXCEPT !.playbackRate = NormalRate]
             s2 == readinessEffect(s1, nextIsMobile, ~nextIsMobile, newRs, now)
         IN /\ readyState' = newRs
            /\ Apply(s2)
            /\ first' = IF first = "none"
                        THEN syncWinner(nextIsMobile, ~nextIsMobile, newRs)
                        ELSE first
    /\ videoErrored' = IF nextIsMobile THEN videoErrored ELSE FALSE
    /\ viewportEffect(nextIsMobile, innerHeight)
    /\ SApply(scrollEffect(IF isMobile THEN SCur ELSE scrollCleanup(SCur),
                           nextIsMobile, scrollY, innerHeight, now))
    /\ sinceFrame' = 0
    /\ UNCHANGED <<phase, nextIsMobile, videoEl, nSignals, delivered,
                   resizePending, recomputes>>
    /\ UNCHANGED envVars
    /\ UNCHANGED scrollEnv
    /\ UNCHANGED onVideoLoaded
    /\ UNCHANGED legacyVars

(* a variant whose resize listener does not classify again *)
Resize_Stale(w) ==
    /\ phase = "mounted"
    /\ nResizes < MaxResizes
    /\ nResizes' = nResizes + 1
    /\ innerWidth' = w
    /\ resizePending' = FALSE
    /\ classChanged' = (classChanged \/
                        checkMobile(w, uaMobile) # checkMobile(innerWidth, uaMobile))
    /\ setViewportHeight(innerHeight)
    /\ UNCHANGED <<phase, uaMobile, isMobile, nextIsMobile, isVideoLoaded,
                   videoReady, videoEl, readyState, videoErrored, playbackRate,
                   timerPending, timerDeadline, hasCalledCallback, listeners,
                   calls, timersCreated, loadCalls, now, nSignals, delivered,
                   first>>
    /\ UNCHANGED scrollVars
    /\ UNCHANGED scrollEnv
    /\ UNCHANGED <<onVideoLoaded, callbackRef, lastInvoked, runCalls, readyRuns,
                   hostIsVideoLoaded>>
    /\ UNCHANGED legacyVars

(* the viewport takes width w and the resize notification is delivered:
   checkMobile (Hero.tsx:25-30) and, on mobile, setViewportHeight
   (Hero.tsx:45) *)
Resize(w) ==
    /\ phase = "mounted"
    /\ nResizes < MaxResizes
    /\ nResizes' = nResizes + 1
    /\ innerWidth' = w
    /\ nextIsMobile' = checkMobile(w, uaMobile)
    /\ resizePending' = FALSE
    /\ classChanged' = (classChanged \/
                        checkMobile(w, uaMobile) # checkMobile(innerWidth, uaMobile))
    /\ setViewportHeight(innerHeight)
    /\ UNCHANGED <<phase, uaMobile, isMobile, isVideoLoaded, videoReady, videoEl,
                   readyState, videoErrored, playbackRate, timerPending,
                   timerDeadline, hasCalledCallback, listeners, calls,
                   timersCreated, loadCalls, now, nSignals, delivered, first>>
    /\ UNCHANGED scrollVars
    /\ UNCHANGED scrollEnv
    /\ UNCHANGED <<onVideoLoaded, callbackRef, lastInvoked, runCalls, readyRuns,
                   hostIsVideoLoaded>>
    /\ UNCHANGED legacyVars

(* the device is rotated: the viewport takes width w, the orientationchange
   notification is delivered (setViewportHeight on mobile, Hero.tsx:46; no
   checkMobile) and the browser queues the resize notification that goes with
   the new width *)
OrientationChange(w) ==
    /\ phase = "mounted"
    /\ nResizes < MaxResizes
    /\ w # innerWidth
    /\ innerWidth' = w
    /\ resizePending' = TRUE
    /\ classChanged' = (classChanged \/
                        checkMobile(w, uaMobile) # checkMobile(innerWidth, uaMobile))
    /\ setViewportHeight(innerHeight)
    /\ UNCHANGED <<phase, uaMobile, isMobile, nextIsMobile, isVideoLoaded,
                   videoReady, videoEl, readyState, videoErrored, playbackRate,
                   timerPending, timerDeadline, hasCalledCallback, listeners,
                   calls, timersCreated, loadCalls, now, nSignals, nResizes,
                   delivered, first>>
    /\ UNCHANGED scrollVars
    /\ UNCHANGED scrollEnv
    /\ UNCHANGED <<onVideoLoaded, callbackRef, lastInvoked, runCalls, readyRuns,
                   hostIsVideoLoaded>>
    /\ UNCHANGED legacyVars

(* the <video> is part of the rendered tree: its React props are live,
   Hero.tsx:258, 285 *)
videoRendered == phase = "mounted" /\ ~isMobile

(* opacity of the poster <img> of the standard branch, in percent, Hero.tsx:305 *)
posterOpacity == IF videoReady THEN 0 ELSE 80

(* opacity class of the <video>, in percent, Hero.tsx:322 *)
videoOpacity == IF videoReady THEN 80 ELSE 0

Deliver(name, s, rs) ==
    IF name \in s.listeners
    THEN LET s1 == [s EXCEPT !.listeners = @ \ {name}]   \* { once: true }
         IN IF name = "error" THEN handleVideoError(s1, rs)
                              ELSE handleVideoReady(s1, rs)
    ELSE s

(* 'loadeddata' reaches the element: the first frame is available *)
LoadedData ==
    /\ videoEl /\ ~videoErrored
    /\ nSignals < MaxSignals
    /\ nSignals' = nSignals + 1
    /\ delivered' = delivered \cup {"ready"}
    /\ \E rs \in ReadyStates :
         /\ rs >= HaveCurrentData /\ rs >= readyState
         /\ readyState' = rs
         /\ LET s == Deliver("loadeddata", Cur, rs)
            IN Apply(s) /\ first' = Won("ready", Cur, s)
    /\ UNCHANGED <<phase, innerWidth, uaMobile, isMobile, nextIsMobile, videoEl,
                   videoErrored, now, nResizes, classChanged>>
    /\ UNCHANGED <<resizePending, vh, vhListeners>>
    /\ UNCHANGED scrollVars
    /\ UNCHANGED scrollEnv
    /\ UNCHANGED onVideoLoaded
    /\ UNCHANGED legacyVars

(* 'canplay' reaches the element; it follows loadeddata *)
CanPlay ==
    /\ videoEl /\ ~videoErrored
    /\ readyState >= HaveCurrentData
    /\ nSignals < MaxSignals
    /\ nSignals' = nSignals + 1
    /\ delivered' = delivered \cup {"ready"}
    /\ \E rs \in ReadyStates :
         /\ rs >= 3 /\ rs >= readyState
         /\ readyState' = rs
         /\ LET s == Deliver("canplay", Cur, rs)
            IN Apply(s) /\ first' = Won("ready", Cur, s)
    /\ UNCHANGED <<phase, innerWidth, uaMobile, isMobile, nextIsMobile, videoEl,
                   videoErrored, now, nResizes, classChanged>>
    /\ UNCHANGED <<resizePending, vh, vhListeners>>
    /\ UNCHANGED scrollVars
    /\ UNCHANGED scrollEnv
    /\ UNCHANGED onVideoLoaded
    /\ UNCHANGED legacyVars

(* 'error' reaches the element: React's own listener (the onError prop) was
   attached when the element was created, so it runs before the listener the
   effect added *)
VideoError ==
    /\ videoEl /\ ~videoErrored
    /\ nSignals < MaxSignals
    /\ nSignals' = nSignals + 1
    /\ delivered' = delivered \cup {"error"}
    /\ videoErrored' = TRUE
    /\ LET s0 == IF videoRendered THEN onErrorProp(Cur) ELSE Cur
           s == Deliver("error", s0, readyState)
       IN Apply(s) /\ first' = Won("error", Cur, s)
    /\ UNCHANGED <<phase, innerWidth, uaMobile, isMobile, nextIsMobile, videoEl,
                   readyState, now, nResizes, classChanged>>
    /\ UNCHANGED <<resizePending, vh, vhListeners>>
    /\ UNCHANGED scrollVars
    /\ UNCHANGED scrollEnv
    /\ UNCHANGED onVideoLoaded
    /\ UNCHANGED legacyVars

(* a variant whose timer callback also makes the content opaque *)
Timeout_ShowsContent ==
    /\ timerPending
    /\ now >= timerDeadline
    /\ LET s == maxWaitTimeout(Cur)
       IN Apply(s) /\ first' = Won("timeout", Cur, s)
    /\ nSignals' = nSignals + 1
    /\ delivered' = delivered \cup {"timeout"}
    /\ contentOpacity' = One
    /\ UNCHANGED <<phase, isMobile, nextIsMobile, videoEl, readyState, videoErrored>>
    /\ UNCHANGED envVars
    /\ UNCHANGED <<resizePending, vh, vhListeners>>
    /\ UNCHANGED <<scrollListener, ticking, rafPending, lastScrollY,
                   lastUpdateTime, sinceFrame, recomputes>>
    /\ UNCHANGED scrollEnv
    /\ UNCHANGED onVideoLoaded
    /\ UNCHANGED legacyVars

(* the 1500 ms timer expires *)
Timeout ==
    /\ timerPending
    /\ now >= timerDeadline
    /\ LET s == maxWaitTimeout(Cur)
       IN Apply(s) /\ first' = Won("timeout", Cur, s)
    /\ nSignals' = nSignals + 1
    /\ delivered' = delivered \cup {"timeout"}
    /\ UNCHANGED <<phase, isMobile, nextIsMobile, videoEl, readyState, videoErrored>>
    /\ UNCHANGED envVars
    /\ UNCHANGED <<resizePending, vh, vhListeners>>
    /\ UNCHANGED scrollVars
    /\ UNCHANGED scrollEnv
    /\ UNCHANGED onVideoLoaded
    /\ UNCHANGED legacyVars

(* time passes *)
Tick ==
    /\ phase # "init"
    /\ now < MaxTime \/ (timerPending /\ now < timerDeadline)
    /\ now' = now + TickMs
    /\ UNCHANGED <<phase, innerWidth, uaMobile, isMobile, nextIsMobile,
                   isVideoLoaded, videoReady, videoEl, readyState, videoErrored,
                   playbackRate, timerPending, timerDeadline, hasCalledCallback,
                   listeners, calls, timersCreated, loadCalls, nSignals, nResizes,
                   delivered, first, classChanged>>
    /\ UNCHANGED <<resizePending, vh, vhListeners>>
    /\ UNCHANGED scrollVars
    /\ UNCHANGED scrollEnv
    /\ UNCHANGED <<onVideoLoaded, callbackRef, lastInvoked, runCalls, readyRuns,
                   hostIsVideoLoaded>>
    /\ UNCHANGED legacyVars

(* unmount: the cleanup of the last run of every effect *)
Unmount ==
    /\ phase = "mounted"
    /\ phase' = "unmounted"
    /\ Apply(IF hasCleanup(isMobile, TRUE) THEN readinessCleanup(Cur) ELSE Cur)
    /\ SApply(IF isMobile THEN SCur ELSE scrollCleanup(SCur))
    /\ sinceFrame' = 0
    /\ vhListeners' = FALSE
    /\ UNCHANGED <<isMobile, nextIsMobile, videoEl, readyState, videoErrored, first,
                   nSignals, delivered, resizePending, vh, recomputes>>
    /\ UNCHANGED envVars
    /\ UNCHANGED scrollEnv
    /\ UNCHANGED onVideoLoaded
    /\ UNCHANGED legacyVars

readinessVars == <<phase, innerWidth, uaMobile, isMobile, nextIsMobile,
                   isVideoLoaded, videoReady, videoEl, readyState, videoErrored,
                   playbackRate, timerPending, timerDeadline, hasCalledCallback,
                   listeners, calls, timersCreated, loadCalls, nSignals, nResizes,
                   delivered, first, classChanged, resizePending, vh, vhListeners,
                   onVideoLoaded, callbackRef, lastInvoked, runCalls, readyRuns,
                   hostIsVideoLoaded>>

(* the hosting page renders the hero with a new onVideoLoaded: the effect
   with dependency [onVideoLoaded] runs (Hero.tsx:19-21), the readiness
   effect, with dependency [isMobile], does not (Hero.tsx:142) *)
NewCallback ==
    /\ phase = "mounted"
    /\ nextIsMobile = isMobile
    /\ onVideoLoaded <= MaxCallbacks
    /\ onVideoLoaded' = onVideoLoaded + 1
    /\ Apply(syncCallbackRef(Cur, onVideoLoaded + 1))
    /\ UNCHANGED <<phase, isMobile, nextIsMobile, videoEl, readyState,
                   videoErrored, nSignals, delivered, first, resizePending,
                   vh, vhListeners>>
    /\ UNCHANGED envVars
    /\ UNCHANGED scrollVars
    /\ UNCHANGED scrollEnv
    /\ UNCHANGED legacyVars

(* the page is scrolled to offset y and the scroll notification is delivered *)
Scroll(y) ==
    /\ phase # "init"
    /\ nScrolls < MaxScrolls
    /\ nScrolls' = nScrolls + 1
    /\ scrollY' = y
    /\ SApply(IF scrollListener THEN handleScroll(SCur) ELSE SCur)
    /\ sinceFrame' = IF scrollListener THEN sinceFrame + 1 ELSE sinceFrame
    /\ UNCHANGED <<innerHeight, nFrames, recomputes, now>>
    /\ UNCHANGED readinessVars
    /\ UNCHANGED legacyVars

(* display refresh: the frame callbacks requested since the last one run *)
Frame ==
    /\ phase # "init"
    /\ nFrames < MaxFrames
    /\ nFrames' = nFrames + 1
    /\ SApply(IF rafPending > 0
              THEN updateParallax([SCur EXCEPT !.rafPending = 0],
                                  scrollY, innerHeight, now)
              ELSE SCur)
    /\ recomputes' = recomputes + rafPending
    /\ sinceFrame' = 0
    /\ UNCHANGED <<innerHeight, scrollY, nScrolls, now>>
    /\ UNCHANGED readinessVars
    /\ UNCHANGED legacyVars

(* a few milliseconds pass *)
ShortTick ==
    /\ phase # "init"
    /\ now < MaxScrollTime
    /\ now' = now + ShortTickMs
    /\ UNCHANGED readinessVars
    /\ UNCHANGED scrollVars
    /\ UNCHANGED scrollEnv
    /\ UNCHANGED legacyVars

(***************************************************************************)
(* The hero variant of src/unnamed/part_002: its video effect,              *)
(* part_002:14-47.  The <video> is always rendered.                         *)
(***************************************************************************)
heroVars == <<readinessVars, scrollVars, scrollEnv, now>>

LCur ==
    [isVideoLoaded |-> legacyIsVideoLoaded, listeners |-> legacyListeners,
     calls |-> legacyCalls, timerPending |-> legacyTimerPending,
     timerDeadline |-> legacyTimerDeadline]

LApply(s) ==
    /\ legacyIsVideoLoaded' = s.isVideoLoaded
    /\ legacyListeners' = s.listeners
    /\ legacyCalls' = s.calls
    /\ legacyTimerPending' = s.timerPending
    /\ legacyTimerDeadline' = s.timerDeadline

(* handleVideoLoaded, part_002:18-23 *)
legacyHandleVideoLoaded(s) ==
    [s EXCEPT !.isVideoLoaded = TRUE, !.calls = @ + 1]

(* handleVideoError, part_002:25-31: schedules the delayed call at time t *)
legacyHandleVideoError(s, t) ==
    [s EXCEPT !.timerPending = TRUE, !.timerDeadline = t + LegacyErrorDelayMs]

(* callback of the setTimeout of handleVideoError, part_002:28-30 *)
legacyErrorTimer(s) ==
    legacyHandleVideoLoaded([s EXCEPT !.timerPending = FALSE])

(* body of the video effect, part_002:14-40; rs is video.readyState *)
legacyVideoEffect(s, rs) ==
    IF rs >= LegacyReadyEnough
    THEN legacyHandleVideoLoaded(s)
    ELSE [s EXCEPT !.listeners = {"canplaythrough", "loadeddata", "error"}]

(* cleanup returned by the video effect, part_002:42-46 *)
legacyCleanup(s) == [s EXCEPT !.listeners = {}]

LegacyDeliver(name, s, t) ==
    IF name \in s.listeners
    THEN LET s1 == [s EXCEPT !.listeners = @ \ {name}]   \* { once: true }
         IN IF name = "error" THEN legacyHandleVideoError(s1, t)
                              ELSE legacyHandleVideoLoaded(s1)
    ELSE s

LegacyMount ==
    /\ legacyPhase = "init"
    /\ legacyPhase' = "mounted"
    /\ LApply(legacyVideoEffect(LCur, legacyReadyState))
    /\ UNCHANGED <<legacyReadyState, legacyDelivered, legacyCallback, legacyNow>>
    /\ UNCHANGED heroVars

(* 'loadeddata' reaches the element: readyState reaches 2 or more for the
   first time *)
LegacyLoadedData ==
    /\ legacyPhase # "init"
    /\ legacyDelivered \cap {"loadeddata", "error"} = {}
    /\ legacyReadyState < HaveCurrentData
    /\ \E rs \in ReadyStates :
         /\ rs >= HaveCurrentData
         /\ legacyReadyState' = rs
    /\ legacyDelivered' = legacyDelivered \cup {"loadeddata"}
    /\ LApply(LegacyDeliver("loadeddata", LCur, legacyNow))
    /\ UNCHANGED <<legacyPhase, legacyCallback, legacyNow>>
    /\ UNCHANGED heroVars

(* 'canplaythrough' reaches the element; it follows loadeddata *)
LegacyCanPlayThrough ==
    /\ legacyPhase # "init"
    /\ legacyDelivered \cap {"canplaythrough", "error"} = {}
    /\ legacyReadyState >= HaveCurrentData
    /\ legacyReadyState' = 4
    /\ legacyDelivered' = legacyDelivered \cup {"canplaythrough"}
    /\ LApply(LegacyDeliver("canplaythrough", LCur, legacyNow))
    /\ UNCHANGED <<legacyPhase, legacyCallback, legacyNow>>
    /\ UNCHANGED heroVars

(* 'error' reaches the element: the load failed before it was complete *)
LegacyError ==
    /\ legacyPhase # "init"
    /\ legacyDelivered \cap {"canplaythrough", "error"} = {}
    /\ legacyDelivered' = legacyDelivered \cup {"error"}
    /\ LApply(LegacyDeliver("error", LCur, legacyNow))
    /\ UNCHANGED <<legacyPhase, legacyReadyState, legacyCallback, legacyNow>>
    /\ UNCHANGED heroVars

(* the 2000 ms timer of handleVideoError expires *)
LegacyErrorTimeout ==
    /\ legacyTimerPending
    /\ legacyNow >= legacyTimerDeadline
    /\ LApply(legacyErrorTimer(LCur))
    /\ UNCHANGED <<legacyPhase, legacyReadyState, legacyDelivered,
                   legacyCallback, legacyNow>>
    /\ UNCHANGED heroVars

(* time passes *)
LegacyTick ==
    /\ legacyPhase # "init"
    /\ legacyNow < MaxLegacyTime
         \/ (legacyTimerPending /\ legacyNow < legacyTimerDeadline)
    /\ legacyNow' = legacyNow + LegacyTickMs
    /\ UNCHANGED <<legacyPhase, legacyReadyState, legacyIsVideoLoaded,
                   legacyListeners, legacyCalls, legacyTimerPending,
                   legacyTimerDeadline, legacyDelivered, legacyCallback>>
    /\ UNCHANGED heroVars

(* the hosting page renders the hero with a new onVideoLoaded: the cleanup
   of the video effect, then the effect again (dependency [onVideoLoaded],
   part_002:47) *)
LegacyRerun ==
    /\ legacyPhase = "mounted"
    /\ legacyCallback <= MaxCallbacks
    /\ legacyCallback' = legacyCallback + 1
    /\ LApply(legacyVideoEffect(legacyCleanup(LCur), legacyReadyState))
    /\ UNCHANGED <<legacyPhase, legacyReadyState, legacyDelivered, legacyNow>>
    /\ UNCHANGED heroVars

(* unmount: the cleanup of the last run of the video effect *)
LegacyUnmount ==
    /\ legacyPhase = "mounted"
    /\ legacyPhase' = "unmounted"
    /\ LApply(legacyCleanup(LCur))
    /\ UNCHANGED <<legacyReadyState, legacyDelivered, legacyCallback, legacyNow>>
    /\ UNCHANGED heroVars

LegacyInit ==
    /\ InitState({1440}, {0}, {800}, {0}) /\ ~uaMobile
    /\ LegacyInitState(ReadyStates)

LegacyNext ==
    \/ LegacyMount
    \/ LegacyLoadedData
    \/ LegacyCanPlayThrough
    \/ LegacyError
    \/ LegacyErrorTimeout
    \/ LegacyTick
    \/ LegacyRerun
    \/ LegacyUnmount

LegacySpec == LegacyInit /\ [][LegacyNext]_vars

Next ==
    \/ Mount
    \/ Rerender
    \/ \E w \in Widths : Resize(w)
    \/ \E w \in Widths : OrientationChange(w)
    \/ LoadedData
    \/ CanPlay
    \/ VideoError
    \/ Timeout
    \/ Tick
    \/ Unmount

Spec == Init /\ [][Next]_vars

ScrollNext ==
    \/ Mount
    \/ Rerender
    \/ \E w \in ScrollWidths : Resize(w)
    \/ \E y \in ScrollYs : Scroll(y)
    \/ Frame
    \/ ShortTick
    \/ Unmount

ScrollSpec == ScrollInit /\ [][ScrollNext]_vars

(* the scheduling of the browser: a due timer runs, time passes, a queued
   render is performed *)
FairSpec ==
    Spec /\ WF_vars(Mount) /\ WF_vars(Rerender) /\ WF_vars(Timeout) /\ WF_vars(Tick)

(* the hero with a hosting page that supplies new callbacks *)
CallbackNext ==
    \/ Next
    \/ NewCallback

CallbackSpec == Init /\ [][CallbackNext]_vars

(* the whole hero: media events, timer, scroll notifications and
   display refreshes interleaved, the
   viewport keeping its width *)
PageInit == InitState(ScrollWidths, {0}, {800}, {0}) /\ LegacyInitState({0})

PageNext ==
    \/ Mount
    \/ Rerender
    \/ LoadedData
    \/ CanPlay
    \/ VideoError
    \/ Timeout
    \/ Tick
    \/ \E y \in PageScrollYs : Scroll(y)
    \/ Frame
    \/ Unmount

PageSpec == PageInit /\ [][PageNext]_vars

TypeOK ==
    /\ phase \in {"init", "mounted", "unmounted"}
    /\ innerWidth \in Widths
    /\ isMobile \in BOOLEAN /\ nextIsMobile \in BOOLEAN
    /\ isVideoLoaded \in BOOLEAN /\ videoReady \in BOOLEAN
    /\ readyState \in ReadyStates
    /\ playbackRate \in {SlowRate, NormalRate}
    /\ listeners \subseteq {"loadeddata", "canplay", "error"}
    /\ calls \in Nat /\ timersCreated \in Nat /\ loadCalls \in Nat
    /\ first \in {"none", "sync", "mobile", "ready", "error", "timeout"}
    /\ resizePending \in BOOLEAN /\ vhListeners \in BOOLEAN
    /\ scrollListener \in BOOLEAN /\ ticking \in BOOLEAN
    /\ rafPending \in Nat /\ contentOpacity.den > 0
    /\ onVideoLoaded \in 1..(MaxCallbacks + 1)
    /\ callbackRef \in 1..onVideoLoaded /\ lastInvoked \in 0..onVideoLoaded
    /\ runCalls \in Nat /\ readyRuns \in Nat
    /\ hostIsVideoLoaded \in BOOLEAN
    /\ legacyPhase \in {"init", "mounted", "unmounted"}
    /\ legacyReadyState \in ReadyStates
    /\ legacyIsVideoLoaded \in BOOLEAN /\ legacyTimerPending \in BOOLEAN
    /\ legacyListeners \subseteq {"canplaythrough", "loadeddata", "error"}
    /\ legacyDelivered \subseteq {"canplaythrough", "loadeddata", "error"}
    /\ legacyCalls \in Nat /\ legacyCallback \in 1..(MaxCallbacks + 1)

(***************************************************************************)
(* Properties                                                              *)
(***************************************************************************)

(* the device class has been the same since construction *)
CompactMount == ~classChanged /\ checkMobile(innerWidth, uaMobile)
StandardMount == ~classChanged /\ ~checkMobile(innerWidth, uaMobile)

(* this step delivers a readiness event, an error event or the timer expiry *)
SignalArrives == nSignals' = nSignals + 1

(* C1: with the device class fixed, onReady is invoked exactly once per
   mount: at most once in every state, and at least once as soon as a
   readiness event, the error event or the timer expiry has been delivered. *)
C1_ExactlyOnce ==
    (phase = "mounted" /\ ~classChanged) =>
        /\ calls <= 1
        /\ (delivered # {} => calls >= 1)

(* C2: on a standard-class mount, once one of readiness, error and timeout
   has been delivered, every later arrival leaves the number of onReady
   invocations, isVideoLoaded, videoReady and the playback rate unchanged. *)
C2_LaterArrivalsAreNoOps ==
    [][(phase = "mounted" /\ StandardMount /\ delivered # {} /\ SignalArrives)
         => UNCHANGED <<calls, isVideoLoaded, videoReady, playbackRate>>]_vars

(* C3: after teardown onReady is never invoked again. *)
C3_NoCallAfterTeardown ==
    [][phase = "unmounted" => calls' = calls]_vars

(* C3 witness: torn down while awaiting a signal, with nothing notified; a
   readiness event has been delivered and the deadline has passed since. *)
C3_Witness ==
    /\ phase = "unmounted"
    /\ calls = 0
    /\ timersCreated = 1
    /\ "ready" \in delivered
    /\ now >= timerDeadline

(* C4: on a compact-class device no bounded-wait timer is ever created and
   onReady has been invoked by the end of the task that mounts the hero. *)
C4_CompactNoTimerSyncReady ==
    (phase # "init" /\ CompactMount) => (timersCreated = 0 /\ calls >= 1)

(* C5: a hero that is mounted eventually invokes onReady, unless it is
   unmounted first. *)
C5_EventuallyNotified ==
    (phase = "mounted") ~> (calls >= 1 \/ phase = "unmounted")

(* C5 witness: the notification came from the timer alone, no media event
   was ever delivered. *)
C5_Witness ==
    /\ phase = "mounted"
    /\ first = "timeout"
    /\ delivered = {"timeout"}
    /\ calls >= 1

(* C6: on a standard-class mount whose video was not ready at mount and
   where no readiness or error event is delivered, onReady is not invoked
   before 1500 ms have passed nor while the timer is pending, and once the
   timer has expired it has been invoked once, isVideoLoaded is true and
   videoReady is false. *)
C6_TimeoutSettles ==
    (phase = "mounted" /\ StandardMount /\ first # "sync"
        /\ delivered \subseteq {"timeout"}) =>
        /\ (now < MaxWaitMs \/ timerPending) => (calls = 0 /\ delivered = {})
        /\ ("timeout" \in delivered) =>
               (calls = 1 /\ isVideoLoaded /\ ~videoReady /\ ~timerPending)
        /\ (delivered = {}) => timerPending

C6_Witness ==
    /\ phase = "mounted" /\ StandardMount
    /\ delivered = {"timeout"}
    /\ now = MaxWaitMs
    /\ calls = 1 /\ isVideoLoaded /\ ~videoReady

(* C7: on a standard-class mount, when a readiness event is the first of
   the racing events, that step sets the playback rate to 0.85, sets
   videoReady and isVideoLoaded and makes the first invocation of onReady. *)
C7_ReadinessFirst ==
    [][(phase = "mounted" /\ StandardMount /\ first = "none" /\ delivered = {}
          /\ "ready" \in delivered')
         => (playbackRate' = SlowRate /\ videoReady' /\ isVideoLoaded'
               /\ calls = 0 /\ calls' = 1)]_vars

C7_Witness ==
    /\ phase = "mounted" /\ StandardMount
    /\ first = "ready"
    /\ delivered = {"ready"}
    /\ playbackRate = SlowRate /\ videoReady /\ calls = 1

(* C8: on a standard-class mount, when the error event is the first of the
   racing events, that step leaves the video layer not marked ready, leaves
   the playback rate unchanged and makes the first invocation of onReady. *)
C8_ErrorFirst ==
    [][(phase = "mounted" /\ StandardMount /\ first = "none" /\ delivered = {}
          /\ "error" \in delivered')
         => (~videoReady' /\ playbackRate' = playbackRate
               /\ calls = 0 /\ calls' = 1)]_vars

(* C9: on a standard-class mount, in every state after the error event has
   been delivered the poster is visible and the video layer is transparent. *)
C9_PosterStaysAfterError ==
    (phase = "mounted" /\ StandardMount /\ "error" \in delivered) =>
        (~videoReady /\ posterOpacity # 0 /\ videoOpacity = 0)

(* C10: on a standard-class mount the video layer is visible only if the
   readiness path notified first; when the timeout or the error won, the
   video layer stays transparent and the poster visible. *)
C10_VideoOnlyViaReadiness ==
    (phase = "mounted" /\ StandardMount /\ first \in {"timeout", "error"}) =>
        (videoOpacity = 0 /\ posterOpacity # 0)

(* the current <video> element has a frame to show *)
videoHasFrame == readyState >= HaveCurrentData /\ ~videoErrored

(* C11: while the hero is mounted the background is never blank: in the
   standard render the poster has non-zero opacity unless the video layer is
   visible and the video has delivered a frame without a load error. *)
C11_NeverBlank ==
    (phase = "mounted" /\ ~isMobile) =>
        (posterOpacity # 0 \/ (videoOpacity # 0 /\ videoHasFrame))

(* C12: after teardown no bounded-wait timer is pending, none of the media
   listeners is registered, and running the teardown again changes nothing. *)
C12_TeardownReleases ==
    (phase = "unmounted") =>
        (~timerPending /\ listeners = {} /\ readinessCleanup(Cur) = Cur)

(* C12 witness: torn down while awaiting a signal, the timer and the
   listeners of that run being the ones released. *)
C12_Witness ==
    /\ phase = "unmounted"
    /\ timersCreated >= 1
    /\ first = "none"
    /\ delivered = {}
    /\ ~timerPending /\ listeners = {}

(* C13: once the device class has changed during the mount, no step makes
   a second invocation of onReady. *)
C13_OnceAcrossClassChange ==
    [][(phase = "mounted" /\ classChanged /\ calls >= 1) => calls' = calls]_vars

(* C14: on a compact-class device no <video> element is ever created and
   video.load() is never called. *)
C14_CompactNoVideo ==
    (phase # "init" /\ CompactMount) => (~videoEl /\ loadCalls = 0)

(* C15: scroll notifications are coalesced: at most one frame callback is
   pending at any time, one is pending whenever a notification has been
   handled since the last display refresh, and that refresh runs the
   recomputation exactly once however many notifications there were. *)
C15_Coalesced ==
    /\ [](rafPending <= 1 /\ (sinceFrame > 0 => rafPending = 1))
    /\ [][(sinceFrame > 0 /\ nFrames' = nFrames + 1)
            => recomputes' = recomputes + 1]_vars

(* C15 witness: two or more notifications since the last refresh, one
   callback pending. *)
C15_Witness ==
    /\ phase = "mounted" /\ scrollListener
    /\ sinceFrame >= 2
    /\ rafPending = 1

(* C16: for standard class and viewport height h > 0 the opacity formula is
   1 at offset 0, non-increasing in the offset, 0 at every offset >= h/2
   (also beyond 3h/2), and equal to 1 - s/(h/2) on [0, h/2].  The offsets
   compared are the one last applied and every sample offset. *)
C16_OpacityShape ==
    (phase = "mounted" /\ ~isMobile /\ innerHeight > 0 /\ lastScrollY >= 0) =>
        LET h == innerHeight
            f(x) == targetOpacity(x, h)
        IN /\ REq(f(0), One)
           /\ \A x \in OpacityInputs \cup {lastScrollY} :
                /\ (lastScrollY <= x) => RLe(f(x), f(lastScrollY))
                /\ (x <= lastScrollY) => RLe(f(lastScrollY), f(x))
                /\ (2 * x >= h) => REq(f(x), Zero)
                /\ (2 * x <= h) => f(x).num * h = (h - 2 * x) * f(x).den

(* C16 witness: a value strictly between 0 and 1 was written for an offset
   inside the fade range. *)
C16_Witness ==
    /\ phase = "mounted" /\ ~isMobile
    /\ lastScrollY = 200
    /\ REq(contentOpacity, targetOpacity(200, innerHeight))
    /\ ~REq(contentOpacity, Zero) /\ ~REq(contentOpacity, One)

(* C17: on a compact-class device the content opacity is 1, no scroll
   listener is attached and no frame callback is pending, at every point of
   the mount. *)
C17_CompactPinned ==
    (phase # "init" /\ CompactMount) =>
        (~scrollListener /\ rafPending = 0 /\ REq(contentOpacity, One))

(* a resize or orientation-change notification, or the render it caused, is
   still to be handled *)
NotificationsHandled == ~resizePending /\ nextIsMobile = isMobile

(* C18: once the resize and orientation-change notifications have been
   handled, the stored device class is the class of the current viewport
   width and platform signature. *)
C18_ClassCurrent ==
    (phase = "mounted" /\ NotificationsHandled) =>
        (isMobile = checkMobile(innerWidth, uaMobile))

(* C18 witness: the viewport went below the breakpoint during the mount and
   the stored class followed. *)
C18_Witness ==
    /\ phase = "mounted" /\ NotificationsHandled
    /\ classChanged /\ ~uaMobile
    /\ innerWidth < 768 /\ isMobile

(* C19: the classifier's result is compact exactly when the width is below
   768 or the platform signature matches, and a Boolean in every case. *)
C19_Classifier ==
    (phase = "mounted" /\ ~resizePending) =>
        /\ nextIsMobile \in BOOLEAN
        /\ nextIsMobile <=> (innerWidth < 768 \/ uaMobile)

(* C19 witness: a width of 768 or more classified compact because of the
   platform signature, after a resize. *)
C19_Witness ==
    /\ phase = "mounted"
    /\ nResizes >= 1
    /\ innerWidth >= 768 /\ uaMobile
    /\ nextIsMobile

(* C20: the opacity written to the content lies in [0, 1]. *)
C20_OpacityInUnitInterval ==
    RLe(Zero, contentOpacity) /\ RLe(contentOpacity, One)

(* C21: video.load() is requested at most once per mount, and never after
   an error event has been delivered in that mount. *)
C21_NoRetry ==
    /\ [](loadCalls <= 1)
    /\ [][("error" \in delivered) => loadCalls' = loadCalls]_vars

(* the run of the readiness effect of a standard-class mount has not notified *)
Unsettled == calls = 0

(* C22 as stated: on a standard-class mount whose video was not ready at
   mount, one timer has been created; while the controller is unsettled that
   timer is pending with its deadline 1500 ms after the mount, the load of
   the video has been requested or is under way, and the readiness and error
   listeners are registered; once it is settled the timer and the listeners
   are gone. *)
C22_RegisteredExactlyWhileUnsettled ==
    (phase = "mounted" /\ StandardMount /\ first # "sync") =>
        /\ timersCreated = 1
        /\ Unsettled =>
             /\ timerPending /\ timerDeadline = MaxWaitMs
             /\ loadCalls = 1 \/ readyState >= 1
             /\ listeners = {"loadeddata", "canplay", "error"}
        /\ ~Unsettled => (~timerPending /\ listeners = {})

(* C22: on a standard-class mount whose video was not ready at mount, one
   timer has been created; the timer is pending exactly while the controller
   is unsettled, with its deadline 1500 ms after the mount; while it is
   unsettled the load of the video has been requested or is under way and
   the readiness and error listeners are registered; a listener leaves only
   by being delivered. *)
C22_RegisteredWhileUnsettled ==
    (phase = "mounted" /\ StandardMount /\ first # "sync") =>
        /\ timersCreated = 1
        /\ timerPending <=> Unsettled
        /\ Unsettled =>
             /\ timerDeadline = MaxWaitMs
             /\ loadCalls = 1 \/ readyState >= 1
             /\ listeners = {"loadeddata", "canplay", "error"}
        /\ ("ready" \notin delivered) => {"loadeddata", "canplay"} \subseteq listeners
        /\ ("error" \notin delivered) => "error" \in listeners

(* C22 witness: the readiness event settled the controller: the timer is
   cancelled, the listeners that did not fire are still registered. *)
C22_Witness ==
    /\ phase = "mounted" /\ StandardMount
    /\ first = "ready" /\ calls = 1
    /\ loadCalls = 1
    /\ ~timerPending
    /\ listeners = {"canplay", "error"}

(* this step is a display refresh that runs the pending frame callback *)
ScheduledRecompute == rafPending > 0 /\ nFrames' = nFrames + 1

(* C23: a scheduled recomputation leaves the opacity and the last applied
   offset as they are when less than 16 ms have passed since the last
   applied update and the offset is within 5 px of the last applied one; in
   every other case it writes the formula value for the current offset and
   viewport height and records the offset as applied. *)
C23_SkipOnlyWhenBoth ==
    [][ScheduledRecompute =>
         IF now - lastUpdateTime < 16 /\ Abs(scrollY - lastScrollY) < 5
         THEN contentOpacity' = contentOpacity /\ lastScrollY' = lastScrollY
         ELSE /\ REq(contentOpacity', targetOpacity(scrollY, innerHeight))
              /\ lastScrollY' = scrollY /\ lastUpdateTime' = now]_vars

(* C23 witness: a recomputation ran for an offset 3 px from the applied one
   and skipped it. *)
C23_Witness ==
    /\ phase = "mounted" /\ StandardMount
    /\ recomputes >= 1
    /\ scrollY = 3 /\ lastScrollY = 0
    /\ ~ticking /\ rafPending = 0

(* this step handles a scroll notification or a display refresh *)
ScrollOrFrame == nScrolls' = nScrolls + 1 \/ nFrames' = nFrames + 1

(* C24: a scroll notification or a frame recomputation leaves
   isVideoLoaded, videoReady, the playback rate, the pending timer and the
   number of onReady invocations unchanged; a readiness event, an error
   event or the timer expiry leaves the content opacity unchanged. *)
C24_Independent ==
    /\ [][ScrollOrFrame =>
            UNCHANGED <<isVideoLoaded, videoReady, playbackRate, timerPending,
                        timerDeadline, calls>>]_vars
    /\ [][SignalArrives => contentOpacity' = contentOpacity]_vars

(* C24 witness: the content has been faded by a recomputation and the
   controller has been settled by a readiness event, in the same mount. *)
C24_Witness ==
    /\ phase = "mounted" /\ ~isMobile
    /\ recomputes >= 1 /\ REq(contentOpacity, targetOpacity(200, 800))
    /\ "ready" \in delivered /\ videoReady /\ calls >= 1

(* C25: a render that supplies a new onVideoLoaded leaves the timer, the
   listeners, the settlement guard and the number of timers, loads and
   notifications as they are; every notification invokes the callback
   supplied by the last render. *)
C25_LatestCallbackNoRerun ==
    /\ [][(onVideoLoaded' # onVideoLoaded) =>
            UNCHANGED <<timerPending, timerDeadline, timersCreated, listeners,
                        hasCalledCallback, loadCalls, calls>>]_vars
    /\ [][(calls' > calls) => lastInvoked' = onVideoLoaded']_vars

(* C25 witness: a new callback was supplied while the controller was
   awaiting a signal; the one timer of the mount then notified through it. *)
C25_Witness ==
    /\ phase = "mounted" /\ StandardMount
    /\ onVideoLoaded = 2
    /\ timersCreated = 1 /\ first = "timeout"
    /\ calls = 1 /\ lastInvoked = 2

(* C26: in the part_002 variant, with the callback it was mounted with,
   onVideoLoaded has been invoked at most once, and exactly once when both
   loadeddata and canplaythrough have been delivered. *)
C26_LegacyExactlyOnce ==
    (legacyPhase = "mounted" /\ legacyCallback = 1) =>
        /\ legacyCalls <= 1
        /\ ({"loadeddata", "canplaythrough"} \subseteq legacyDelivered)
               => legacyCalls = 1

(* C27: in the part_002 variant, after teardown no timer is pending and
   onVideoLoaded is not invoked any more. *)
C27_LegacyTeardownSilent ==
    /\ [](legacyPhase = "unmounted" => ~legacyTimerPending)
    /\ [][legacyPhase = "unmounted" => legacyCalls' = legacyCalls]_vars

(* this step runs the callback of maxWaitTimeout *)
TimeoutRuns ==
    /\ timerPending /\ ~timerPending'
    /\ calls' = calls + 1
    /\ UNCHANGED <<isMobile, hasCalledCallback, listeners>>

(* C28: while the timer of the current run of the readiness effect is
   pending, that run has not invoked onReady and its handlers have not
   passed the guard; so the timer callback makes the first notification of
   its run whenever it runs. *)
C28_PendingTimerMeansUnnotified ==
    /\ [](timerPending => (runCalls = 0 /\ ~hasCalledCallback))
    /\ [][TimeoutRuns => (runCalls = 0 /\ runCalls' = 1)]_vars

(* C28 witness: the readiness event won, the timer was cancelled and its
   deadline has passed without a notification from it. *)
C28_Witness ==
    /\ phase = "mounted" /\ StandardMount
    /\ first = "ready" /\ timersCreated = 1
    /\ ~timerPending /\ now >= timerDeadline
    /\ "timeout" \notin delivered
    /\ runCalls = 1

(* C29: in one run of the readiness effect the readiness handler passes its
   guard at most once, whatever media events are delivered: once it has, a
   later loadeddata, canplay or error event makes no invocation of onReady,
   writes no playback rate and does not set videoReady. *)
C29_HandlerAtMostOnce ==
    /\ [](readyRuns <= 1)
    /\ [][(readyRuns = 1 /\ SignalArrives /\ ~TimeoutRuns) =>
            (calls' = calls /\ playbackRate' = playbackRate
               /\ (videoReady' => videoReady))]_vars

(* C29 witness: loadeddata, canplay and error have all been delivered to
   one run and the handler has acted once. *)
C29_Witness ==
    /\ phase = "mounted" /\ StandardMount
    /\ timersCreated = 1
    /\ nSignals = 3 /\ delivered = {"ready", "error"}
    /\ listeners = {}
    /\ readyRuns = 1

(* C30: on standard class, when the scroll listener is attached, no frame
   callback is pending and no notification waits for a refresh, the offset
   the displayed opacity was computed from is less than 5 px away from the
   current scroll offset, and the displayed opacity is the formula value
   for that offset. *)
C30_NeverStaleByFive ==
    (phase = "mounted" /\ ~isMobile /\ scrollListener
        /\ rafPending = 0 /\ sinceFrame = 0) =>
        /\ Abs(scrollY - lastScrollY) < 5
        /\ REq(contentOpacity, targetOpacity(lastScrollY, innerHeight))

(* C30 witness: two recomputations were skipped by the filter and the
   display is 3 px behind. *)
C30_Witness ==
    /\ phase = "mounted" /\ StandardMount /\ scrollListener
    /\ rafPending = 0 /\ sinceFrame = 0
    /\ nScrolls = 2 /\ recomputes = 2
    /\ scrollY = 3 /\ lastScrollY = 0

(* this step starts a run of the readiness effect on the standard branch
   with a video that already has data *)
StartsWithData == timersCreated' = timersCreated + 1 /\ readyState' >= 2

(* C31: a run of the readiness effect that starts on the standard branch
   with readyState >= 2 invokes onReady once in that step, sets the playback
   rate to 0.85, leaves no timer pending and no media listener registered;
   on a standard-class mount settled this way onReady is never invoked
   again. *)
C31_SynchronousSettle ==
    /\ [][StartsWithData =>
            (calls' = calls + 1 /\ runCalls' = 1 /\ playbackRate' = 85
               /\ videoReady' /\ ~timerPending' /\ listeners' = {})]_vars
    /\ []((phase = "mounted" /\ StandardMount /\ first = "sync") =>
            (calls = 1 /\ runCalls = 1 /\ ~timerPending /\ listeners = {}))

(* C31 witness: settled at mount; a media event was delivered and the 1500
   ms went by afterwards without another notification. *)
C31_Witness ==
    /\ phase = "mounted" /\ StandardMount /\ first = "sync"
    /\ timersCreated = 1
    /\ "ready" \in delivered /\ now >= timerDeadline
    /\ calls = 1 /\ playbackRate = SlowRate

(* the run of the scroll animator has been torn down and none has started
   since: the hero is unmounted, or the compact branch is rendered *)
AnimatorTornDown == phase = "unmounted" \/ (phase = "mounted" /\ isMobile)

(* C32: once the scroll animator is torn down the scroll listener is
   removed and no frame callback is pending; from then on no scroll
   notification requests a frame, no recomputation runs and the content
   opacity is not written. *)
C32_TeardownStopsAnimator ==
    /\ [](AnimatorTornDown => (~scrollListener /\ rafPending = 0))
    /\ [][(AnimatorTornDown /\ AnimatorTornDown') =>
            (contentOpacity' = contentOpacity /\ recomputes' = recomputes
               /\ lastScrollY' = lastScrollY)]_vars

(* C32 witness: torn down by unmount with a frame callback requested and not
   yet run (the flag of that run is still set); the callback was cancelled
   and the page has been scrolled and refreshed since construction without a
   recomputation. *)
C32_Witness ==
    /\ phase = "unmounted" /\ StandardMount
    /\ ticking /\ rafPending = 0
    /\ nScrolls = 2 /\ nFrames >= 1
    /\ recomputes = 0

(* C33: the hosting page's handler is idempotent and monotone: after one
   or more invocations of onReady the host's isVideoLoaded is true, as after
   one; applying the handler twice gives the state of applying it once; the
   flag never goes from true to false. *)
C33_HostIdempotentMonotone ==
    /\ []((calls >= 1) => hostIsVideoLoaded)
    /\ [](handleVideoLoaded(handleVideoLoaded(Cur)).hostIsVideoLoaded
            = handleVideoLoaded(Cur).hostIsVideoLoaded)
    /\ [][hostIsVideoLoaded => hostIsVideoLoaded']_vars

(* C33 witness: the handler has been invoked twice in one mount. *)
C33_Witness ==
    /\ phase = "mounted"
    /\ calls = 2
    /\ hostIsVideoLoaded

(* C34: while a run of the scroll effect is live (its listener is
   attached) the ticking flag is true exactly when a frame callback is
   pending, and a scroll notification that arrives with no frame pending
   requests one. *)
C34_TickingIffPending ==
    /\ []((phase = "mounted" /\ scrollListener) =>
            (ticking <=> rafPending = 1) /\ rafPending \in {0, 1})
    /\ [][(scrollListener /\ rafPending = 0 /\ nScrolls' = nScrolls + 1)
            => (rafPending' = 1 /\ ticking')]_vars

(* C34 witness: a recomputation was skipped by the filter and the next
   notification has requested a frame again. *)
C34_Witness ==
    /\ phase = "mounted" /\ StandardMount /\ scrollListener
    /\ nScrolls = 2 /\ recomputes = 1
    /\ scrollY = 3 /\ lastScrollY = 0
    /\ ticking /\ rafPending = 1

====
